---- MODULE Spec2Model ----
(***************************************************************************)
(* Model of src/streamlit_app.py: the parsers, the exercise normaliser     *)
(* process_exercise_data, the comparator calculate_improvement, the        *)
(* renderer format_duration, the sidebar upload loop that fills            *)
(* st.session_state.training_data and the progress analysis that reads it. *)
(*                                                                         *)
(* Python values are tagged records: None, numbers, strings, lists and     *)
(* the integers json.loads can produce that are too large for a float.     *)
(* Floats are modelled as exact rationals n/d in lowest terms (d > 0), so  *)
(* rounding, overflow to inf and underflow to 0.0 are outside the model.   *)
(***************************************************************************)
EXTENDS Integers, Sequences, FiniteSets, TLC

VARIABLES
    pc,              \* position of the running script or of the probed call
    arg,             \* arguments of the probed function (selected_sessions for tab3)
    ret,             \* its result
    uploaded_files,  \* the batch held by st.file_uploader
    idx,             \* position of the upload loop in the batch
    training_data,   \* st.session_state.training_data: date -> session
    reports,         \* st.error / st.success messages of the current run
    runs             \* number of script runs so far

vars == <<pc, arg, ret, uploaded_files, idx, training_data, reports, runs>>

----------------------------------------------------------------------------
(* Bounds of the model *)

\* longest duration token enumerated exhaustively
MaxTokenLen == 4
\* numbers handed to calculate_improvement range over -MaxNum..MaxNum
MaxNum == 3
\* longest batch of uploaded files
MaxFiles == 2
\* script runs (Streamlit reruns the script on every interaction)
MaxRuns == 2
\* format_duration is applied to every whole number of seconds 0..MaxSeconds
MaxSeconds == 3700

----------------------------------------------------------------------------
(* Python values *)

None == [t |-> "none"]
Str(s) == [t |-> "str", s |-> s]
\* an int beyond the float range (json.loads yields one for a 400-digit literal)
BigInt == [t |-> "big"]
\* a JSON array
List(items) == [t |-> "list", items |-> items]
\* a JSON object: d is the function from its keys to their values
Dict(d) == [t |-> "dict", d |-> d]

RECURSIVE Gcd(_, _)
Gcd(a, b) == IF b = 0 THEN a ELSE Gcd(b, a % b)

Abs(x) == IF x < 0 THEN -x ELSE x

\* the number n/d in lowest terms with a positive denominator
Num(n, d) ==
    LET g == Gcd(Abs(n), Abs(d))
        s == IF d < 0 THEN -1 ELSE 1
    IN  [t |-> "num", n |-> s * (n \div g), d |-> s * (d \div g)]

Whole(n) == Num(n, 1)

IsNum(v) == v.t = "num"
IsNone(v) == v.t = "none"
IsStr(v) == v.t = "str"

Add(a, b) == Num(a.n * b.d + b.n * a.d, a.d * b.d)
Sub(a, b) == Num(a.n * b.d - b.n * a.d, a.d * b.d)
Mul(a, b) == Num(a.n * b.n, a.d * b.d)
\* what a division by zero leaves behind (Python raises ZeroDivisionError)
ZeroDiv == [t |-> "zerodiv"]
Div(a, b) == IF b.n = 0 THEN ZeroDiv ELSE Num(a.n * b.d, a.d * b.n)
Neg(a) == Num(-a.n, a.d)
IsZero(a) == a.n = 0
Positive(a) == a.n > 0
Less(a, b) == a.n * b.d < b.n * a.d

\* bool(v): what "if v" and "v and w" test
Truthy(v) ==
    CASE v.t = "none" -> FALSE
      [] v.t = "num"  -> v.n # 0
      [] v.t = "str"  -> v.s # ""
      [] v.t = "list" -> Len(v.items) > 0
      [] v.t = "dict" -> DOMAIN v.d # {}
      [] OTHER        -> TRUE

----------------------------------------------------------------------------
(* Strings *)

Char(s, i) == SubSeq(s, i, i)
Drop(s, k) == SubSeq(s, k + 1, Len(s))
Take(s, k) == SubSeq(s, 1, k)

Digits == {"0", "1", "2", "3", "4", "5", "6", "7", "8", "9"}

DigitVal(c) ==
    CASE c = "0" -> 0 [] c = "1" -> 1 [] c = "2" -> 2 [] c = "3" -> 3
      [] c = "4" -> 4 [] c = "5" -> 5 [] c = "6" -> 6 [] c = "7" -> 7
      [] c = "8" -> 8 [] c = "9" -> 9

AllDigits(s) == \A i \in 1..Len(s) : Char(s, i) \in Digits

\* the value of a digit string ("" is 0)
RECURSIVE DigitsVal(_)
DigitsVal(s) ==
    IF s = "" THEN 0
    ELSE 10 * DigitsVal(Take(s, Len(s) - 1)) + DigitVal(Char(s, Len(s)))

RECURSIVE Pow10(_)
Pow10(k) == IF k = 0 THEN 1 ELSE 10 * Pow10(k - 1)

\* str.replace(old, ''): every non-overlapping occurrence, left to right
RECURSIVE Remove(_, _)
Remove(s, old) ==
    IF Len(s) < Len(old) THEN s
    ELSE IF Take(s, Len(old)) = old THEN Remove(Drop(s, Len(old)), old)
    ELSE Char(s, 1) \o Remove(Drop(s, 1), old)

\* str.replace(old, new)
RECURSIVE Replace(_, _, _)
Replace(s, old, new) ==
    IF Len(s) < Len(old) THEN s
    ELSE IF Take(s, Len(old)) = old THEN new \o Replace(Drop(s, Len(old)), old, new)
    ELSE Char(s, 1) \o Replace(Drop(s, 1), old, new)

\* needle in hay
Contains(hay, needle) ==
    \E i \in 1..(Len(hay) - Len(needle) + 1) :
        SubSeq(hay, i, i + Len(needle) - 1) = needle

LowerChar(c) ==
    CASE c = "A" -> "a" [] c = "B" -> "b" [] c = "C" -> "c" [] c = "D" -> "d"
      [] c = "E" -> "e" [] c = "F" -> "f" [] c = "G" -> "g" [] c = "H" -> "h"
      [] c = "I" -> "i" [] c = "J" -> "j" [] c = "K" -> "k" [] c = "L" -> "l"
      [] c = "M" -> "m" [] c = "N" -> "n" [] c = "O" -> "o" [] c = "P" -> "p"
      [] c = "Q" -> "q" [] c = "R" -> "r" [] c = "S" -> "s" [] c = "T" -> "t"
      [] c = "U" -> "u" [] c = "V" -> "v" [] c = "W" -> "w" [] c = "X" -> "x"
      [] c = "Y" -> "y" [] c = "Z" -> "z" [] OTHER -> c

\* str.lower() on ASCII
RECURSIVE Lower(_)
Lower(s) == IF s = "" THEN "" ELSE LowerChar(Char(s, 1)) \o Lower(Drop(s, 1))

\* position of the first "." in s, or 0
RECURSIVE DotPos(_, _)
DotPos(s, i) ==
    IF i > Len(s) THEN 0 ELSE IF Char(s, i) = "." THEN i ELSE DotPos(s, i + 1)

\* float(s) for a string: [ok, v].  Accepted here: an optional sign, digits
\* with at most one ".", at least one digit.  (Python also accepts
\* surrounding blanks, exponents, underscores, "inf" and "nan": the token
\* alphabet of the model has none of these.)  ok = FALSE is ValueError.
FloatOfStr(s) ==
    LET signed == s # "" /\ Char(s, 1) \in {"-", "+"}
        body   == IF signed THEN Drop(s, 1) ELSE s
        dot    == DotPos(body, 1)
        ip     == IF dot = 0 THEN body ELSE Take(body, dot - 1)
        fp     == IF dot = 0 THEN "" ELSE Drop(body, dot)
        good   == AllDigits(ip) /\ AllDigits(fp) /\ Len(ip) + Len(fp) > 0
        mag    == Num(DigitsVal(ip) * Pow10(Len(fp)) + DigitsVal(fp), Pow10(Len(fp)))
    IN  IF ~good THEN [ok |-> FALSE, v |-> None]
        ELSE [ok |-> TRUE,
              v |-> IF signed /\ Char(s, 1) = "-" THEN Neg(mag) ELSE mag]

----------------------------------------------------------------------------
(* parse_duration *)

\* lines 60-67: strip every "PT" and then every "S", float() the rest; the
\* bare except turns AttributeError (not a string) and ValueError into None
parse_duration(duration_str) ==
    IF ~IsStr(duration_str) THEN None
    ELSE LET f == FloatOfStr(Remove(Remove(duration_str.s, "PT"), "S"))
         IN  IF f.ok THEN f.v ELSE None

----------------------------------------------------------------------------
(* calculate_improvement *)

\* a negative list with the keyword "fc" in place of "fc_min"
negative_parameters_fc == <<"durata", "tempo", "passo", "fc">>

\* line 171
negative_parameters == <<"durata", "tempo", "passo", "fc_min">>
\* line 172
positive_parameters == <<"distanza", "velocita", "calorie", "fc_max", "fc_avg">>

\* any(p in name for p in keywords)
AnyIn(keywords, name) == \E i \in 1..Len(keywords) : Contains(name, keywords[i])

\* float(v): the exception it raises ("none" when it returns) and the value
ToFloat(v) ==
    CASE v.t = "num" -> [exc |-> "none", v |-> v]
      [] v.t = "str" -> IF FloatOfStr(v.s).ok
                        THEN [exc |-> "none", v |-> FloatOfStr(v.s).v]
                        ELSE [exc |-> "ValueError", v |-> None]
      [] v.t = "big" -> [exc |-> "OverflowError", v |-> None]
      [] OTHER       -> [exc |-> "TypeError", v |-> None]

\* value1 == 0: true of the numbers 0 and 0.0 only
EqualsZero(v) == IsNum(v) /\ v.n = 0

\* the nearest integer to the non-negative a/b, ties to even
RoundHalfEven(a, b) ==
    LET q == a \div b
        r == a % b
    IN  IF 2 * r < b THEN q
        ELSE IF 2 * r > b THEN q + 1
        ELSE IF q % 2 = 0 THEN q ELSE q + 1

RECURSIVE NatToStr(_)
NatToStr(n) ==
    LET c == CHOOSE c \in Digits : DigitVal(c) = n % 10
    IN  IF n < 10 THEN c ELSE NatToStr(n \div 10) \o c

RECURSIVE ZeroPad(_, _)
ZeroPad(s, width) == IF Len(s) >= width THEN s ELSE ZeroPad("0" \o s, width)

\* format(q, "+.<k>f"): sign always shown, k decimals (ties of the exact
\* rational go to even; a float tie-breaks on its binary expansion)
FormatSigned(q, k) ==
    LET m  == RoundHalfEven(Abs(q.n) * Pow10(k), q.d)
        ds == ZeroPad(NatToStr(m), k + 1)
    IN  (IF q.n < 0 THEN "-" ELSE "+")
            \o Take(ds, Len(ds) - k) \o "." \o Drop(ds, Len(ds) - k)

\* line 184: f"{diff:+.2f} ({perc_change:+.1f}%)"
ChangeStr(diff, perc_change) ==
    FormatSigned(diff, 2) \o " (" \o FormatSigned(perc_change, 1) \o "%)"

\* lines 163 and 186: return None, "N/A"
Sentinel == [exc |-> "none", improvement |-> None, change |-> "N/A"]

\* an exception that leaves the function
Raised(e) == [exc |-> e, improvement |-> None, change |-> ""]

\* the sign rule without the inversion for negative parameters
SignedImprovementNoInversion(perc_change, parameter_name) == perc_change

\* lines 170-182: a name holding a negative keyword inverts the sign; the
\* positive list and the default both keep it
SignedImprovement(perc_change, parameter_name) ==
    LET is_negative_param == AnyIn(negative_parameters, Lower(parameter_name))
        is_positive_param == AnyIn(positive_parameters, Lower(parameter_name))
    IN  IF is_negative_param THEN Neg(perc_change)
        ELSE IF is_positive_param THEN perc_change
        ELSE perc_change

\* lines 160-186
calculate_improvement(value1, value2, parameter_name) ==
    IF IsNone(value1) \/ IsNone(value2) \/ EqualsZero(value1) THEN Sentinel
    ELSE
        LET f1  == ToFloat(value1)
            f2  == ToFloat(value2)
            \* float(value1) is evaluated before float(value2)
            exc == IF f1.exc # "none" THEN f1.exc ELSE f2.exc
        IN  IF exc \in {"ValueError", "TypeError"} THEN Sentinel
            ELSE IF exc # "none" THEN Raised(exc)
            ELSE
                LET val1 == f1.v
                    val2 == f2.v
                    diff == Sub(val2, val1)
                    perc_change == IF ~IsZero(val1)
                                   THEN Mul(Div(diff, val1), Whole(100))
                                   ELSE Whole(0)
                IN  [exc |-> "none",
                     improvement |-> SignedImprovement(perc_change, parameter_name),
                     change |-> ChangeStr(diff, perc_change)]

----------------------------------------------------------------------------
(* format_duration *)

\* math.floor of a number
Floor(a) == a.n \div a.d
\* a // k and a % k for a positive integer k (the remainder is in [0, k))
FloorDiv(a, k) == Whole(Floor(Div(a, Whole(k))))
Mod(a, k) == Sub(a, Mul(Whole(k), FloorDiv(a, k)))

\* the minutes taken from the whole duration, hours included
MinutesOfTotal(seconds) == Floor(FloorDiv(seconds, 60))

\* line 273: int((seconds % 3600) // 60)
MinutesOf(seconds) == Floor(FloorDiv(Mod(seconds, 3600), 60))

\* str(n) for an integer
IntToStr(n) == IF n < 0 THEN "-" \o NatToStr(-n) ELSE NatToStr(n)

\* lines 268-278: [exc, text].  The arithmetic of line 272 raises TypeError
\* on a text or a container.
format_duration(seconds) ==
    IF IsNone(seconds) THEN [exc |-> "none", text |-> "N/A"]
    ELSE IF ~IsNum(seconds) THEN [exc |-> "TypeError", text |-> ""]
    ELSE LET hours   == Floor(FloorDiv(seconds, 3600))
             minutes == MinutesOf(seconds)
             secs    == Floor(Mod(seconds, 60))
         IN  [exc |-> "none",
              text |-> IF hours > 0
                       THEN IntToStr(hours) \o "h " \o IntToStr(minutes) \o "m "
                                \o IntToStr(secs) \o "s"
                       ELSE IntToStr(minutes) \o "m " \o IntToStr(secs) \o "s"]

----------------------------------------------------------------------------
(* Dictionaries: functions from keys to values *)

EmptyDict == [k \in {} |-> None]
Has(d, k) == k \in DOMAIN d
\* d.get(k, default)
Get(d, k, default) == IF k \in DOMAIN d THEN d[k] ELSE default
\* d[k] = v
Put(d, k, v) == (k :> v) @@ d

----------------------------------------------------------------------------
(* process_exercise_data *)

\* the pace entry without the "> 0" test
PaceEntryAnySpeed(velocita_avg_kmh) ==
    IF Truthy(velocita_avg_kmh)
    THEN "passo_medio_min_km" :> Div(Whole(60), velocita_avg_kmh)
    ELSE EmptyDict

\* lines 135-138
PaceEntry(velocita_avg_kmh) ==
    IF Truthy(velocita_avg_kmh) /\ Positive(velocita_avg_kmh)
    THEN "passo_medio_min_km" :> Div(Whole(60), velocita_avg_kmh)
    ELSE EmptyDict

\* lines 103-111
BaseEntries(exercise) ==
    LET durata_secondi == parse_duration(Get(exercise, "duration", Str("0")))
        distanza_metri == Get(exercise, "distance", Whole(0))
    IN  [sport          |-> Get(exercise, "sport", Str("N/A")),
         durata_secondi |-> durata_secondi,
         durata_minuti  |-> IF Truthy(durata_secondi)
                            THEN Div(durata_secondi, Whole(60)) ELSE None,
         distanza_metri |-> distanza_metri,
         distanza_km    |-> IF Truthy(distanza_metri)
                            THEN Div(distanza_metri, Whole(1000)) ELSE None,
         calorie        |-> Get(exercise, "kiloCalories", Whole(0)),
         ascent         |-> Get(exercise, "ascent", Whole(0)),
         descent        |-> Get(exercise, "descent", Whole(0))]

\* lines 113-118
AltitudeEntries(exercise) ==
    IF Has(exercise, "altitude")
    THEN LET alt == exercise["altitude"]
         IN  [altitudine_min |-> Get(alt, "min", Whole(0)),
              altitudine_avg |-> Get(alt, "avg", Whole(0)),
              altitudine_max |-> Get(alt, "max", Whole(0))]
    ELSE EmptyDict

\* lines 120-125
HeartRateEntries(exercise) ==
    IF Has(exercise, "heartRate")
    THEN LET hr == exercise["heartRate"]
         IN  [fc_min |-> Get(hr, "min", Whole(0)),
              fc_avg |-> Get(hr, "avg", Whole(0)),
              fc_max |-> Get(hr, "max", Whole(0))]
    ELSE EmptyDict

\* lines 127-138
SpeedEntries(exercise) ==
    IF Has(exercise, "speed")
    THEN LET speed == exercise["speed"]
             velocita_avg_ms == Get(speed, "avg", Whole(0))
             velocita_max_ms == Get(speed, "max", Whole(0))
             velocita_avg_kmh == IF Truthy(velocita_avg_ms)
                                 THEN Mul(velocita_avg_ms, Num(36, 10)) ELSE None
             velocita_max_kmh == IF Truthy(velocita_max_ms)
                                 THEN Mul(velocita_max_ms, Num(36, 10)) ELSE None
         IN  PaceEntry(velocita_avg_kmh)
             @@ [velocita_avg_ms  |-> velocita_avg_ms,
                 velocita_max_ms  |-> velocita_max_ms,
                 velocita_avg_kmh |-> velocita_avg_kmh,
                 velocita_max_kmh |-> velocita_max_kmh]
    ELSE EmptyDict

\* lines 140-142
CalcSpeedEntry(processed) ==
    IF Truthy(processed["distanza_km"]) /\ Truthy(processed["durata_minuti"])
    THEN "velocita_media_calc" :>
            Div(processed["distanza_km"], Div(processed["durata_minuti"], Whole(60)))
    ELSE EmptyDict

\* lines 144-152: the first speed zone only
ZoneEntries(exercise) ==
    IF Has(exercise, "zones") /\ Has(exercise["zones"], "speed")
    THEN LET speed_zones == exercise["zones"]["speed"]
         IN  IF Len(speed_zones) > 0
             THEN LET main_zone == speed_zones[1]
                  IN  [zona_vel_min     |-> Get(main_zone, "lowerLimit", Whole(0)),
                       zona_vel_max     |-> Get(main_zone, "higherLimit", Whole(0)),
                       tempo_in_zona    |-> parse_duration(Get(main_zone, "inZone", Str("0"))),
                       distanza_in_zona |-> Get(main_zone, "distance", Whole(0))]
             ELSE EmptyDict
    ELSE EmptyDict

\* lines 154-156
IntensityEntry(processed) ==
    IF Truthy(Get(processed, "fc_avg", None)) /\ Truthy(Get(processed, "fc_max", None))
    THEN "intensita_fc" :>
            Mul(Div(processed["fc_avg"], processed["fc_max"]), Whole(100))
    ELSE EmptyDict

\* lines 99-158: the returned mapping (every key is written once)
process_exercise_data(exercise) ==
    LET p1 == BaseEntries(exercise) @@ AltitudeEntries(exercise)
                @@ HeartRateEntries(exercise) @@ SpeedEntries(exercise)
        p2 == p1 @@ CalcSpeedEntry(p1) @@ ZoneEntries(exercise)
    IN  p2 @@ IntensityEntry(p2)

----------------------------------------------------------------------------
(* parse_datetime and extract_date_from_json *)

\* k digits at position i of s
DigitsAt(s, i, k) == i + k - 1 <= Len(s) /\ AllDigits(SubSeq(s, i, i + k - 1))
NumAt(s, i, k) == DigitsVal(SubSeq(s, i, i + k - 1))

IsLeap(y) == (y % 4 = 0 /\ y % 100 # 0) \/ y % 400 = 0

DaysInMonth(y, m) ==
    IF m = 2 THEN (IF IsLeap(y) THEN 29 ELSE 28)
    ELSE IF m \in {4, 6, 9, 11} THEN 30 ELSE 31

\* a UTC offset "+HH:MM" or "-HH:MM"
OffsetOk(o) ==
    /\ Len(o) = 6
    /\ Char(o, 1) \in {"+", "-"}
    /\ DigitsAt(o, 2, 2) /\ Char(o, 4) = ":" /\ DigitsAt(o, 5, 2)
    /\ NumAt(o, 2, 2) <= 23 /\ NumAt(o, 5, 2) <= 59

\* what may follow the seconds: a fraction, an offset, both or nothing
RECURSIVE FractionEnd(_, _)
FractionEnd(t, i) ==
    IF i <= Len(t) /\ Char(t, i) \in Digits THEN FractionEnd(t, i + 1) ELSE i

AfterSeconds(t) ==
    IF t # "" /\ Char(t, 1) = "."
    THEN LET e == FractionEnd(t, 2)
         IN  e > 2 /\ (Drop(t, e - 1) = "" \/ OffsetOk(Drop(t, e - 1)))
    ELSE t = "" \/ OffsetOk(t)

\* "HH", "HH:MM" or "HH:MM:SS[.f]", each with an optional offset
ClockOk(c) ==
    /\ DigitsAt(c, 1, 2) /\ NumAt(c, 1, 2) <= 23
    /\ \/ Drop(c, 2) = "" \/ OffsetOk(Drop(c, 2))
       \/ /\ Len(c) >= 5 /\ Char(c, 3) = ":"
          /\ DigitsAt(c, 4, 2) /\ NumAt(c, 4, 2) <= 59
          /\ \/ Drop(c, 5) = "" \/ OffsetOk(Drop(c, 5))
             \/ /\ Len(c) >= 8 /\ Char(c, 6) = ":"
                /\ DigitsAt(c, 7, 2) /\ NumAt(c, 7, 2) <= 59
                /\ AfterSeconds(Drop(c, 8))

\* datetime.fromisoformat(s) for the extended format
\* YYYY-MM-DD[<sep>HH[:MM[:SS[.f]]][+HH:MM]]: [ok, date].  (Python 3.11 also
\* reads the basic format without dashes and week dates.)
FromIsoFormat(s) ==
    LET shape == /\ Len(s) >= 10
                 /\ DigitsAt(s, 1, 4) /\ Char(s, 5) = "-"
                 /\ DigitsAt(s, 6, 2) /\ Char(s, 8) = "-"
                 /\ DigitsAt(s, 9, 2)
        y == NumAt(s, 1, 4)
        m == NumAt(s, 6, 2)
        d == NumAt(s, 9, 2)
        ok == /\ shape
              /\ y >= 1 /\ m \in 1..12 /\ d >= 1 /\ d <= DaysInMonth(y, m)
              /\ (Len(s) = 10 \/ (Len(s) >= 12 /\ ClockOk(Drop(s, 11))))
    IN  IF ok THEN [ok |-> TRUE, date |-> <<y, m, d>>]
        ELSE [ok |-> FALSE, date |-> <<>>]

\* lines 69-74: [ok, date]; ok = FALSE is the None of the bare except
\* (AttributeError for a non-string, ValueError for a bad string)
parse_datetime(datetime_str) ==
    IF ~IsStr(datetime_str) THEN [ok |-> FALSE, date |-> <<>>]
    ELSE FromIsoFormat(Replace(datetime_str.s, "Z", "+00:00"))

\* datetime.now().date(), fixed for the length of a behaviour
TodayDate == <<2025, 7, 23>>

\* 'exercises' in data: "yes", "no" or the TypeError of a value that is no
\* container
InData(key, data) ==
    CASE data.t = "dict" -> IF key \in DOMAIN data.d THEN "yes" ELSE "no"
      [] data.t = "list" -> IF Str(key) \in {data.items[i] : i \in 1..Len(data.items)}
                            THEN "yes" ELSE "no"
      [] data.t = "str"  -> IF Contains(data.s, key) THEN "yes" ELSE "no"
      [] OTHER           -> "TypeError"

\* len(v): defined for a list, a string and a mapping
HasLen(v) == v.t \in {"list", "str", "dict"}

\* v[0] for a v with len(v) > 0: [exc, v].  The keys of a JSON object are
\* strings, so 0 is none of them.
FirstItem(v) ==
    CASE v.t = "list" -> [exc |-> "none", v |-> v.items[1]]
      [] v.t = "str"  -> [exc |-> "none", v |-> Str(Char(v.s, 1))]
      [] OTHER        -> [exc |-> "KeyError", v |-> None]

\* the date is read from the last entry instead
DatedEntryLast(exercises) ==
    IF exercises.t = "list"
    THEN [exc |-> "none", v |-> exercises.items[Len(exercises.items)]]
    ELSE FirstItem(exercises)

\* line 90: the entry of 'exercises' the date is read from
DatedEntry(exercises) == FirstItem(exercises)

\* lines 88-95, the body of the try: [exc, date], exc the exception that
\* leaves the body ("none" when it returns date)
TryExtractDate(data) ==
    LET found == InData("exercises", data)
        today == [exc |-> "none", date |-> TodayDate]
    IN  IF found = "TypeError" THEN [exc |-> "TypeError", date |-> <<>>]
        ELSE IF found = "no" THEN today
        \* data['exercises'] on a list or a string
        ELSE IF data.t # "dict" THEN [exc |-> "TypeError", date |-> <<>>]
        ELSE LET exercises == data.d["exercises"]
             IN  IF ~HasLen(exercises) THEN [exc |-> "TypeError", date |-> <<>>]
                 ELSE IF ~Truthy(exercises) THEN today
                 ELSE LET first == DatedEntry(exercises)
                      IN  IF first.exc # "none" THEN [exc |-> first.exc, date |-> <<>>]
                          ELSE IF first.v.t # "dict"
                          THEN [exc |-> "AttributeError", date |-> <<>>]
                          ELSE LET start_time == Get(first.v.d, "startTime", None)
                                   dt == parse_datetime(start_time)
                               IN  IF Truthy(start_time) /\ dt.ok
                                   THEN [exc |-> "none", date |-> dt.date]
                                   ELSE today

\* lines 86-97: the date of exercises[0].startTime when every step of the
\* lookup succeeds, today otherwise; the bare except (lines 96-97) turns
\* every exception of the body into today
extract_date_from_json(data) ==
    LET r == TryExtractDate(data)
    IN  IF r.exc = "none" THEN r.date ELSE TodayDate

----------------------------------------------------------------------------
(* load_json_file and the upload loop *)

\* lines 76-84: <<content, error>>.  A payload is bytes that are no UTF-8
\* ("invalid_utf8": UnicodeDecodeError, the generic branch), text that is no
\* JSON ("invalid_json": JSONDecodeError) or the text of the document doc.
load_json_file(uploaded_file) ==
    CASE uploaded_file.payload.kind = "invalid_json" ->
            [content |-> None, error |-> Str("Errore nel parsing JSON")]
      [] uploaded_file.payload.kind = "invalid_utf8" ->
            [content |-> None, error |-> Str("Errore generico")]
      [] OTHER ->
            [content |-> uploaded_file.payload.doc, error |-> None]

\* lines 313-317: [exc, processed_exercises].  Iterating a value that is no
\* list, or calling .get on an entry that is no mapping, raises.
RECURSIVE ProcessAll(_)
ProcessAll(items) ==
    IF items = <<>> THEN <<>>
    ELSE <<process_exercise_data(Head(items).d)>> \o ProcessAll(Tail(items))

ProcessExercises(data) ==
    LET found == InData("exercises", data)
    IN  IF found = "TypeError" THEN [exc |-> "TypeError", processed |-> <<>>]
        ELSE IF found = "no" THEN [exc |-> "none", processed |-> <<>>]
        \* data['exercises'] on a string or a list
        ELSE IF data.t # "dict" THEN [exc |-> "TypeError", processed |-> <<>>]
        ELSE LET exercises == data.d["exercises"]
             IN  CASE exercises.t = "list" ->
                        IF \E i \in 1..Len(exercises.items) : exercises.items[i].t # "dict"
                        THEN [exc |-> "AttributeError", processed |-> <<>>]
                        ELSE [exc |-> "none", processed |-> ProcessAll(exercises.items)]
                   \* the keys of a mapping and the characters of a string
                   \* are strings: .get raises on the first one
                   [] exercises.t \in {"dict", "str"} ->
                        IF Truthy(exercises)
                        THEN [exc |-> "AttributeError", processed |-> <<>>]
                        ELSE [exc |-> "none", processed |-> <<>>]
                   [] OTHER -> [exc |-> "TypeError", processed |-> <<>>]

\* lines 320-325
Session(uploaded_file, data, processed_exercises) ==
    [filename      |-> uploaded_file.name,
     data          |-> IF processed_exercises # <<>>
                       THEN processed_exercises[1] ELSE EmptyDict,
     raw_data      |-> data,
     all_exercises |-> processed_exercises]

----------------------------------------------------------------------------
(* The progress analysis of tab3, lines 520-576 *)

\* date.__lt__
DateLess(a, b) ==
    \/ a[1] < b[1]
    \/ a[1] = b[1] /\ a[2] < b[2]
    \/ a[1] = b[1] /\ a[2] = b[2] /\ a[3] < b[3]

\* sorted(dates): insertion of each date into the sorted rest
RECURSIVE Insert(_, _)
Insert(d, sorted) ==
    IF sorted = <<>> THEN <<d>>
    ELSE IF DateLess(Head(sorted), d) THEN <<Head(sorted)>> \o Insert(d, Tail(sorted))
    ELSE <<d>> \o sorted

RECURSIVE SortedDates(_)
SortedDates(dates) ==
    IF dates = <<>> THEN <<>> ELSE Insert(Head(dates), SortedDates(Tail(dates)))

\* line 522
sessions_sorted(selected_sessions) == SortedDates(selected_sessions)

UpperChar(c) ==
    CASE c = "a" -> "A" [] c = "b" -> "B" [] c = "c" -> "C" [] c = "d" -> "D"
      [] c = "e" -> "E" [] c = "f" -> "F" [] c = "g" -> "G" [] c = "h" -> "H"
      [] c = "i" -> "I" [] c = "j" -> "J" [] c = "k" -> "K" [] c = "l" -> "L"
      [] c = "m" -> "M" [] c = "n" -> "N" [] c = "o" -> "O" [] c = "p" -> "P"
      [] c = "q" -> "Q" [] c = "r" -> "R" [] c = "s" -> "S" [] c = "t" -> "T"
      [] c = "u" -> "U" [] c = "v" -> "V" [] c = "w" -> "W" [] c = "x" -> "X"
      [] c = "y" -> "Y" [] c = "z" -> "Z" [] OTHER -> c

IsLetter(c) == UpperChar(c) # c \/ LowerChar(c) # c

\* str.title(): a letter that follows no letter is upper-cased, the others
\* are lower-cased
RECURSIVE TitleFrom(_, _)
TitleFrom(s, inword) ==
    IF s = "" THEN ""
    ELSE LET c == Char(s, 1)
         IN  (IF inword THEN LowerChar(c) ELSE UpperChar(c))
                 \o TitleFrom(Drop(s, 1), IsLetter(c))

\* line 571: param.replace('_', ' ').title()
Parametro(param) == TitleFrom(Replace(param, "_", " "), FALSE)

\* lines 572-575: round(v, k) of a number (ties of the exact rational go to even)
Round(v, k) ==
    LET m == RoundHalfEven(Abs(v.n) * Pow10(k) , v.d)
    IN  Num(IF v.n < 0 THEN -m ELSE m, Pow10(k))

\* line 566: isinstance(v, (int, float))
Numeric(v) == v.t \in {"num", "big"}

\* f"{v:.2f}": the exception it raises, "none" when it renders
FormatExc(v) ==
    CASE v.t = "num"  -> "none"
      [] v.t = "big"  -> "OverflowError"
      [] v.t = "str"  -> "ValueError"
      [] OTHER        -> "TypeError"

\* lines 532-535, 545-548 and 551-554, one headline metric: the exception of
\* "last - first if first and last else 0" and of the f-strings that render
\* the last value and the difference
HeadlineExc(first_session, last_session, key) ==
    LET first == Get(first_session, key, Whole(0))
        last  == Get(last_session, key, Whole(0))
    IN  IF Truthy(first) /\ Truthy(last) /\ ~(IsNum(first) /\ IsNum(last))
        THEN (IF Numeric(first) /\ Numeric(last) THEN "OverflowError" ELSE "TypeError")
        ELSE FormatExc(last)

\* lines 538-542: the duration is rendered by format_duration only when it
\* is truthy, "N/A" otherwise
DurationHeadlineExc(first_session, last_session) ==
    LET first == Get(first_session, "durata_minuti", Whole(0))
        last  == Get(last_session, "durata_minuti", Whole(0))
    IN  IF ~Truthy(last) THEN "none"
        ELSE IF ~IsNum(last) THEN "TypeError"
        ELSE IF Truthy(first) /\ ~IsNum(first) THEN "TypeError"
        ELSE "none"

\* lines 529-554: the first exception of the four headline metrics
HeadlinesExc(first_session, last_session) ==
    LET e1 == HeadlineExc(first_session, last_session, "distanza_km")
        e2 == DurationHeadlineExc(first_session, last_session)
        e3 == HeadlineExc(first_session, last_session, "velocita_avg_kmh")
        e4 == HeadlineExc(first_session, last_session, "fc_avg")
    IN  IF e1 # "none" THEN e1 ELSE IF e2 # "none" THEN e2
        ELSE IF e3 # "none" THEN e3 ELSE e4

\* lines 569-576: the record of a parameter once calculate_improvement has
\* returned r, as [exc, emits, record]
RecordOf(param, val_first, val_last, r) ==
    IF r.exc # "none" THEN [exc |-> r.exc, emits |-> FALSE, record |-> None]
    ELSE IF IsNone(r.improvement) THEN [exc |-> "none", emits |-> FALSE, record |-> None]
    ELSE [exc |-> "none", emits |-> TRUE,
          record |-> [Parametro       |-> Parametro(param),
                      ValoreIniziale  |-> Round(val_first, 2),
                      ValoreFinale    |-> Round(val_last, 2),
                      Cambiamento     |-> r.change,
                      MiglioramentoPc |-> Round(r.improvement, 1)]]

\* lines 562-576 for one parameter: [exc, emits, record]
ImprovementOf(first_session, last_session, param) ==
    IF /\ Has(first_session, param) /\ Has(last_session, param)
       /\ Numeric(first_session[param]) /\ Numeric(last_session[param])
    THEN RecordOf(param, first_session[param], last_session[param],
                  calculate_improvement(first_session[param], last_session[param],
                                        param))
    ELSE [exc |-> "none", emits |-> FALSE, record |-> None]

\* what the analysis leaves when an exception ends the script in it
AnalysisRaised(e, sorted) ==
    [exc |-> e, compared |-> TRUE, baseline |-> sorted[1],
     final |-> sorted[Len(sorted)], improvements |-> {}]

\* lines 558-576: the loop over the parameters, outcomes being what each
\* parameter gave.  The records are kept as a set: the list is built in the
\* order of the sorted parameter names and sorted again by line 580.
\* calculate_improvement lets only OverflowError out, so the parameter that
\* raises first does not change the outcome.
Improvements(outcomes, sorted) ==
    IF \E o \in outcomes : o.exc # "none" THEN AnalysisRaised("OverflowError", sorted)
    ELSE [exc |-> "none", compared |-> TRUE, baseline |-> sorted[1],
          final |-> sorted[Len(sorted)],
          improvements |-> {o.record : o \in {x \in outcomes : x.emits}}]

\* lines 526-576 for the two sessions compared
Compare(first_session, last_session, sorted, headlines) ==
    IF headlines # "none" THEN AnalysisRaised(headlines, sorted)
    ELSE Improvements({ImprovementOf(first_session, last_session, param) :
                          param \in DOMAIN first_session \cup DOMAIN last_session},
                      sorted)

\* lines 520-576: [exc, compared, baseline, final, improvements]
progress_analysis(store, selected_sessions) ==
    IF Len(selected_sessions) < 2
    THEN [exc |-> "none", compared |-> FALSE, baseline |-> <<>>, final |-> <<>>,
          improvements |-> {}]
    ELSE LET sorted == sessions_sorted(selected_sessions)
         IN  Compare(store[sorted[1]].data, store[sorted[Len(sorted)]].data, sorted,
                     HeadlinesExc(store[sorted[1]].data, store[sorted[Len(sorted)]].data))

----------------------------------------------------------------------------
(* The uploaded files of the model *)

ExerciseA ==
    [startTime |-> Str("2025-07-21T04:53:40.000"), sport |-> Str("RUNNING"),
     duration |-> Str("PT3000S"), distance |-> Whole(7500),
     heartRate |-> [min |-> Whole(62), avg |-> Whole(110), max |-> Whole(138)],
     speed |-> [avg |-> Num(5, 2), max |-> Whole(4)]]

ExerciseB ==
    [startTime |-> Str("2025-07-22T06:00:00Z"), sport |-> Str("RUNNING"),
     duration |-> Str("PT2700S"), distance |-> Whole(8500)]

\* a second session of the day of ExerciseA
ExerciseA2 ==
    [startTime |-> Str("2025-07-21T18:00:00"), sport |-> Str("CYCLING"),
     duration |-> Str("PT1800S"), distance |-> Whole(9000)]

ExerciseUndated == [sport |-> Str("OTHER_OUTDOOR"), distance |-> Whole(1000)]

JsonFile(name, doc) == [name |-> name, payload |-> [kind |-> "json", doc |-> doc]]
Exercises(items) == Dict([exercises |-> List(items)])

FileCatalogue ==
    { [name |-> "broken.json",  payload |-> [kind |-> "invalid_json"]],
      [name |-> "latin1.json",  payload |-> [kind |-> "invalid_utf8"]],
      JsonFile("run_a.json",    Exercises(<<Dict(ExerciseA)>>)),
      JsonFile("run_b.json",    Exercises(<<Dict(ExerciseB), Dict(ExerciseA2)>>)),
      JsonFile("run_a2.json",   Exercises(<<Dict(ExerciseA2)>>)),
      JsonFile("undated.json",  Exercises(<<Dict(ExerciseUndated)>>)),
      JsonFile("null.json",     None) }

Batches == UNION {[1..n -> FileCatalogue] : n \in 0..MaxFiles}

----------------------------------------------------------------------------
(* The script: one run per interaction, lines 303-329 *)

CurrentFile == uploaded_files[idx]
InLoop == pc = "upload" /\ idx <= Len(uploaded_files)

Report(level, uploaded_file) == [level |-> level, file |-> uploaded_file.name]

\* Streamlit runs the script again: the uploader holds a batch, the session
\* state is kept
Rerun ==
    /\ pc \in {"idle", "crashed"}
    /\ runs < MaxRuns
    /\ \E batch \in Batches : uploaded_files' = batch
    /\ idx' = 1
    /\ reports' = <<>>
    /\ runs' = runs + 1
    /\ pc' = "upload"
    /\ UNCHANGED <<arg, ret, training_data>>

\* the error branch ending the whole loop
SkipMalformedStops ==
    /\ InLoop
    /\ Truthy(load_json_file(CurrentFile).error)
    /\ reports' = Append(reports, Report("error", CurrentFile))
    /\ pc' = "idle"
    /\ UNCHANGED <<arg, ret, uploaded_files, idx, training_data, runs>>

\* lines 305-307: st.error, and on to the next file
SkipMalformed ==
    /\ InLoop
    /\ Truthy(load_json_file(CurrentFile).error)
    /\ reports' = Append(reports, Report("error", CurrentFile))
    /\ idx' = idx + 1
    /\ UNCHANGED <<pc, arg, ret, uploaded_files, training_data, runs>>

\* lines 308-329
StoreSession ==
    /\ InLoop
    /\ LET loaded == load_json_file(CurrentFile)
           data == loaded.content
           file_date == extract_date_from_json(data)
           exs == ProcessExercises(data)
       IN  /\ ~Truthy(loaded.error)
           /\ exs.exc = "none"
           /\ training_data' =
                  Put(training_data, file_date, Session(CurrentFile, data, exs.processed))
    /\ reports' = Append(reports, Report("success", CurrentFile))
    /\ idx' = idx + 1
    /\ UNCHANGED <<pc, arg, ret, uploaded_files, runs>>

\* lines 314-317 raising: nothing catches it, the run ends there
UncaughtException ==
    /\ InLoop
    /\ LET loaded == load_json_file(CurrentFile)
       IN  /\ ~Truthy(loaded.error)
           /\ ProcessExercises(loaded.content).exc # "none"
    /\ reports' = Append(reports, Report("exception", CurrentFile))
    /\ pc' = "crashed"
    /\ UNCHANGED <<arg, ret, uploaded_files, idx, training_data, runs>>

\* the loop is over; the rest of the script does not write training_data
FinishUpload ==
    /\ pc = "upload"
    /\ idx > Len(uploaded_files)
    /\ pc' = "idle"
    /\ UNCHANGED <<arg, ret, uploaded_files, idx, training_data, reports, runs>>

\* lines 55-58
AppStart ==
    /\ uploaded_files = <<>>
    /\ idx = 1
    /\ training_data = EmptyDict
    /\ reports = <<>>
    /\ runs = 0

AppUnchanged == UNCHANGED <<uploaded_files, idx, training_data, reports, runs>>

Init == pc = "idle" /\ arg = None /\ ret = None /\ AppStart

Next == Rerun \/ SkipMalformed \/ StoreSession \/ UncaughtException \/ FinishUpload

Spec == Init /\ [][Next]_vars

----------------------------------------------------------------------------
(* parse_duration on its own: every token up to MaxTokenLen characters over *)
(* TokenAlphabet, some longer ones, and arguments that are no string        *)

TokenAlphabet == {"P", "T", "S", "4", "5", ".", "H"}

RECURSIVE Tokens(_)
Tokens(n) ==
    IF n = 0 THEN {""}
    ELSE LET shorter == Tokens(n - 1)
         IN  shorter \cup {s \o c : s \in {x \in shorter : Len(x) = n - 1},
                                    c \in TokenAlphabet}

DurationArgs ==
    {Str(s) : s \in Tokens(MaxTokenLen)}
        \cup {Str("PT4819.500S"), Str("PT4819.500"), Str("4819.500S"),
              Str("PT1H30M"), Str("0"), None, Whole(5)}

InitDuration == pc = "call" /\ arg \in DurationArgs /\ ret = None /\ AppStart

CallParseDuration ==
    /\ pc = "call"
    /\ ret' = parse_duration(arg)
    /\ pc' = "done"
    /\ UNCHANGED arg
    /\ AppUnchanged

SpecDuration == InitDuration /\ [][CallParseDuration]_vars

----------------------------------------------------------------------------
(* calculate_improvement on its own *)

ImproveValues ==
    {Whole(n) : n \in (-MaxNum)..MaxNum}
        \cup {Whole(5), Whole(6), Whole(45), Whole(50), Whole(-10), Whole(-5), Num(1, 2)}
        \cup {Str("0"), Str("0.0"), Str("5"), Str("abc"), Str("")}
        \cup {None, BigInt, List(<<Whole(1)>>)}

ParameterNames ==
    {"distanza_km", "durata_minuti", "fc_min", "fc_max", "FC_MIN", "Tempo_In_Zona",
     "passo_medio_min_km", "velocita_media_calc", "altitudine_min", "ascent",
     "distanza_tempo"}

ImproveArgs ==
    [value1 : ImproveValues, value2 : ImproveValues, parameter_name : ParameterNames]

InitImprove == pc = "call" /\ arg \in ImproveArgs /\ ret = None /\ AppStart

CallCalculateImprovement ==
    /\ pc = "call"
    /\ ret' = calculate_improvement(arg.value1, arg.value2, arg.parameter_name)
    /\ pc' = "done"
    /\ UNCHANGED arg
    /\ AppUnchanged

SpecImprove == InitImprove /\ [][CallCalculateImprovement]_vars

----------------------------------------------------------------------------
(* process_exercise_data on its own: every subset of the source fields,    *)
(* with zero, negative and malformed values among the present ones         *)

\* the mappings with key k absent or bound to a value of vals
Optional(k, vals) == {EmptyDict} \cup {k :> v : v \in vals}

HeartRates ==
    {a @@ b @@ c : a \in Optional("min", {Whole(62)}),
                   b \in Optional("avg", {Whole(0), Whole(110)}),
                   c \in Optional("max", {Whole(0), Whole(138)})}

Speeds ==
    {a @@ b : a \in Optional("avg", {Whole(0), Whole(-1), Num(10, 3)}),
              b \in Optional("max", {Whole(4)})}

SpeedZone ==
    [lowerLimit |-> Whole(2), higherLimit |-> Whole(3),
     inZone |-> Str("PT600S"), distance |-> Whole(1500)]

Zones ==
    {EmptyDict, [speed |-> <<>>], [speed |-> <<SpeedZone>>],
     [speed |-> <<EmptyDict, SpeedZone>>]}

Altitudes == {[min |-> Whole(-5), avg |-> Whole(21), max |-> Whole(39)], EmptyDict}

ExerciseArgs ==
    {a @@ b @@ c @@ d @@ e @@ f :
        a \in Optional("duration", {Str("PT2700S"), Str("PT0S"), Str("PT45"), Str("PT1H30M")}),
        b \in Optional("distance", {Whole(0), Whole(8500)}),
        c \in Optional("heartRate", HeartRates),
        d \in Optional("speed", Speeds),
        e \in Optional("zones", Zones),
        f \in Optional("altitude", Altitudes)}

InitExercise == pc = "call" /\ arg \in ExerciseArgs /\ ret = None /\ AppStart

CallProcessExerciseData ==
    /\ pc = "call"
    /\ ret' = process_exercise_data(arg)
    /\ pc' = "done"
    /\ UNCHANGED arg
    /\ AppUnchanged

SpecExercise == InitExercise /\ [][CallProcessExerciseData]_vars

----------------------------------------------------------------------------
(* extract_date_from_json on its own: documents of every shape, and first  *)
(* entries with a start time made of a date text and a clock text          *)

DateTexts ==
    {"2025-07-21", "2024-02-29", "2025-02-29", "2025-13-01", "2025-07-32",
     "2025-7-21", "21/07/2025", "0000-01-01"}

ClockTexts ==
    {"", "T04:53:40.000", "T06:00:00Z", " 18:00", "T23:30:00-05:00", "T25:00:00",
     "T04:53:40.", "T04:53", "T04", "Z", "T", "T04:53:60"}

StartTimes == {Str(d \o c) : d \in DateTexts, c \in ClockTexts}

\* an entry with the start time v and nothing else
Started(v) == Dict([startTime |-> v])

DatedDocuments ==
    {Exercises(<<Started(v)>>) : v \in StartTimes}
        \cup {Exercises(<<Started(v), Dict(ExerciseB)>>) :
                 v \in {Str("2025-07-21T04:53:40.000"), Str("2025-02-29"), None}}
        \cup {Exercises(<<Dict(ExerciseB), Started(Str("2025-07-21"))>>),
              Exercises(<<Dict(ExerciseUndated), Dict(ExerciseA)>>)}

OddDocuments ==
    {None, Whole(5), BigInt, Str("exercises"), Str("{}"),
     List(<<>>), List(<<Str("exercises")>>),
     Dict(EmptyDict), Dict([sport |-> Str("RUNNING")])}
        \cup {Dict([exercises |-> v]) :
                 v \in {None, Whole(3), BigInt, Str(""), Str("abc"),
                        Dict(EmptyDict), Dict([a |-> Whole(1)]),
                        Dict(ExerciseA), List(<<>>)}}
        \cup {Exercises(<<v>>) :
                 v \in {None, Whole(5), Str("x"), List(<<>>), Dict(EmptyDict),
                        Started(None), Started(Str("")), Started(Whole(20250721)),
                        Started(Whole(0)), Started(List(<<Str("2025-07-21")>>)),
                        List(<<Started(Str("2025-07-21"))>>)}}

DateArgs == DatedDocuments \cup OddDocuments

InitDate == pc = "call" /\ arg \in DateArgs /\ ret = None /\ AppStart

CallExtractDate ==
    /\ pc = "call"
    /\ ret' = extract_date_from_json(arg)
    /\ pc' = "done"
    /\ UNCHANGED arg
    /\ AppUnchanged

SpecDate == InitDate /\ [][CallExtractDate]_vars

----------------------------------------------------------------------------
(* format_duration on its own: every whole number of seconds up to         *)
(* MaxSeconds, longer durations, fractions, negative values and arguments  *)
(* that are no number                                                      *)

SecondsArgs ==
    {Whole(n) : n \in 0..MaxSeconds}
        \cup {Whole(7199), Whole(7200), Whole(86399), Whole(86400), Whole(90061),
              Whole(359999), Whole(360000)}
        \cup {Num(1, 2), Num(119, 2), Num(7199, 2), Num(9639, 2)}
        \cup {Whole(-1), Whole(-3600), Num(-1, 2)}
        \cup {None, Str("x"), List(<<>>)}

InitFormat == pc = "call" /\ arg \in SecondsArgs /\ ret = None /\ AppStart

CallFormatDuration ==
    /\ pc = "call"
    /\ ret' = format_duration(arg)
    /\ pc' = "done"
    /\ UNCHANGED arg
    /\ AppUnchanged

SpecFormat == InitFormat /\ [][CallFormatDuration]_vars

----------------------------------------------------------------------------
(* The progress analysis on its own: a store of three dates, each with the *)
(* metrics of one exercise (or of none), and every selection of its dates  *)
(* in every order; arg is st.session_state.selected_sessions               *)

\* a session without distance and speed
ExerciseGym ==
    [sport |-> Str("STRENGTH_TRAINING"), duration |-> Str("PT1800S"),
     heartRate |-> [min |-> Whole(60), avg |-> Whole(100), max |-> Whole(120)]]

ExerciseCal == [kiloCalories |-> Whole(500)] @@ ExerciseA
ExerciseCalBig == [kiloCalories |-> BigInt] @@ ExerciseA

\* line 322: the metrics of the first exercise, {} for a document without
SessionMetrics ==
    {process_exercise_data(e) :
        e \in {ExerciseA, ExerciseB, ExerciseA2, ExerciseGym, ExerciseCal, ExerciseCalBig}}
        \cup {EmptyDict}

\* the order of the dates is neither the order of their days nor of their
\* months
StoreDates == {<<2025, 7, 21>>, <<2025, 8, 3>>, <<2024, 12, 31>>}

Stores == [StoreDates -> [data : SessionMetrics]]

\* st.multiselect: distinct dates of the store in the order they were chosen
Selections ==
    {sel \in UNION {[1..n -> StoreDates] : n \in 0..Cardinality(StoreDates)} :
        \A i, j \in DOMAIN sel : i # j => sel[i] # sel[j]}

InitProgress ==
    /\ pc = "call" /\ ret = None
    /\ training_data \in Stores
    /\ arg \in Selections
    /\ uploaded_files = <<>> /\ idx = 1 /\ reports = <<>> /\ runs = 0

CallProgressAnalysis ==
    /\ pc = "call"
    /\ ret' = progress_analysis(training_data, arg)
    /\ pc' = "done"
    /\ UNCHANGED arg
    /\ AppUnchanged

SpecProgress == InitProgress /\ [][CallProgressAnalysis]_vars

----------------------------------------------------------------------------
(* Claims *)

Unparseable(uploaded_file) == Truthy(load_json_file(uploaded_file).error)
DateOfFile(uploaded_file) ==
    extract_date_from_json(load_json_file(uploaded_file).content)

\* C1: a file that load_json_file rejects is reported with st.error, leaves
\* training_data as it was and hands the loop to the next file of the batch;
\* when the loop has run to its end every file has its report, an error for a
\* rejected file and a success for a parsed one, whose session is then stored
\* under its date whatever rejected files came before it.
C1_BatchSkipsOnlyOffendingFile ==
    /\ [][ (InLoop /\ Unparseable(CurrentFile)) =>
              /\ training_data' = training_data
              /\ reports' = Append(reports, Report("error", CurrentFile))
              /\ uploaded_files' = uploaded_files
              /\ idx' = idx + 1
              /\ pc' = "upload" ]_vars
    /\ [](pc = "idle" =>
              /\ Len(reports) = Len(uploaded_files)
              /\ \A i \in 1..Len(uploaded_files) :
                    /\ reports[i].file = uploaded_files[i].name
                    /\ IF Unparseable(uploaded_files[i])
                       THEN reports[i].level = "error"
                       ELSE /\ reports[i].level = "success"
                            /\ Has(training_data, DateOfFile(uploaded_files[i])))

\* a finished run in which a rejected file came before a file that was stored
C1_Witness ==
    /\ pc = "idle"
    /\ \E i, j \in 1..Len(uploaded_files) :
          /\ i < j
          /\ Unparseable(uploaded_files[i])
          /\ reports[i].level = "error"
          /\ reports[j].level = "success"
          /\ Has(training_data, DateOfFile(uploaded_files[j]))
          /\ training_data[DateOfFile(uploaded_files[j])].filename = uploaded_files[j].name

\* a baseline that is zero: the number, or a text float() reads as zero
ZeroBaseline(v) ==
    \/ IsNum(v) /\ v.n = 0
    \/ IsStr(v) /\ FloatOfStr(v.s).ok /\ FloatOfStr(v.s).v.n = 0

\* C2: whenever value1 is zero, as the number 0 or 0.0 or as a text that
\* reads as zero, calculate_improvement returns (None, "N/A") for every
\* parameter name and every value2 (stated here for a value2 that is a
\* number or None).
C2_ZeroBaselineIsSentinel ==
    (pc = "done" /\ ZeroBaseline(arg.value1) /\ (IsNum(arg.value2) \/ IsNone(arg.value2)))
        => ret = Sentinel

\* a value float() cannot read as a number
NonNumeric(v) ==
    \/ v.t \in {"list", "dict"}
    \/ IsStr(v) /\ ~FloatOfStr(v.s).ok

\* C3: calculate_improvement never raises, and returns (None, "N/A")
\* whenever a value is None, the baseline is non-numeric or value2 is
\* non-numeric.
C3_NeverRaises ==
    pc = "done" =>
        /\ ret.exc = "none"
        /\ (\/ IsNone(arg.value1) \/ IsNone(arg.value2)
            \/ NonNumeric(arg.value1) \/ NonNumeric(arg.value2)) => ret = Sentinel

NegativeKeywords == {"durata", "tempo", "passo", "fc_min"}
IsNegativeName(name) == \E k \in NegativeKeywords : Contains(Lower(name), k)

\* both values are numbers and the baseline is not zero
DefinedComparison == IsNum(arg.value1) /\ arg.value1.n # 0 /\ IsNum(arg.value2)

\* C4: for numbers value1 # 0 and value2 the improvement is
\* (value2 - value1) / value1 * 100, negated exactly when the lower-cased
\* parameter name holds one of 'durata', 'tempo', 'passo', 'fc_min'; a name
\* that matches no keyword keeps the sign.  distanza 5 -> 6 gives +20 and
\* durata 50 -> 45 gives +10.
C4_SignedPercentChange ==
    (pc = "done" /\ DefinedComparison) =>
        LET v1 == arg.value1
            v2 == arg.value2
            sign == IF IsNegativeName(arg.parameter_name) THEN -1 ELSE 1
        IN  /\ ret.exc = "none"
            /\ IsNum(ret.improvement)
            \* improvement = sign * 100 * (v2 - v1) / v1, cross-multiplied
            /\ ret.improvement.n * (v1.n * v2.d)
                  = sign * 100 * (v2.n * v1.d - v1.n * v2.d) * ret.improvement.d
            /\ (v1 = Whole(5) /\ v2 = Whole(6) /\ arg.parameter_name = "distanza_km")
                  => ret.improvement = Whole(20)
            /\ (v1 = Whole(50) /\ v2 = Whole(45) /\ arg.parameter_name = "durata_minuti")
                  => ret.improvement = Whole(10)

\* durata_minuti 50 -> 45 has been compared and came out as +10
C4_Witness ==
    /\ pc = "done"
    /\ arg = [value1 |-> Whole(50), value2 |-> Whole(45), parameter_name |-> "durata_minuti"]
    /\ ret.improvement = Whole(10)

\* C5: for every defined comparison, negative baselines included, a
\* negative-is-better parameter has improvement > 0 exactly when
\* value2 < value1, and every other parameter exactly when value2 > value1.
C5_PositiveMeansBetter ==
    (pc = "done" /\ DefinedComparison) =>
        /\ IsNum(ret.improvement)
        /\ IF IsNegativeName(arg.parameter_name)
           THEN Positive(ret.improvement) <=> Less(arg.value2, arg.value1)
           ELSE Positive(ret.improvement) <=> Less(arg.value1, arg.value2)

\* <seconds>: digits, optionally a "." and more digits
IsSeconds(s) ==
    LET dot == DotPos(s, 1)
    IN  IF dot = 0 THEN s # "" /\ AllDigits(s)
        ELSE /\ dot > 1 /\ dot < Len(s)
             /\ AllDigits(Take(s, dot - 1)) /\ AllDigits(Drop(s, dot))

\* a token PT<seconds>S
WellFormedToken(v) ==
    /\ IsStr(v)
    /\ Len(v.s) >= 4
    /\ Take(v.s, 2) = "PT"
    /\ Char(v.s, Len(v.s)) = "S"
    /\ IsSeconds(SubSeq(v.s, 3, Len(v.s) - 1))

\* C6: parse_duration returns the seconds of a token PT<seconds>S and None
\* for everything else: a token without the trailing S, without the PT
\* prefix, or an argument that is no string.
C6_OnlyWellFormedTokensParse ==
    pc = "done" =>
        IF WellFormedToken(arg)
        THEN ret = FloatOfStr(SubSeq(arg.s, 3, Len(arg.s) - 1)).v
        ELSE ret = None

\* no entry of the mapping is the trace of a division by zero
NoZeroDivision(processed) == \A k \in DOMAIN processed : processed[k] # ZeroDiv

ZoneKeys == {"zona_vel_min", "zona_vel_max", "tempo_in_zona", "distanza_in_zona"}

\* C7: every source field is optional on its own: whatever subset of
\* duration, distance, altitude, heartRate, speed and zones an entry holds,
\* the metrics derived from an absent field are absent from the mapping
\* (durata_secondi and durata_minuti without duration, distanza_km without
\* distance, the km/h and pace keys without speed, intensita_fc without
\* heartRate, the zone keys without zones), not present with a placeholder.
C7_AbsentFieldAbsentMetric ==
    pc = "done" =>
        /\ NoZeroDivision(ret)
        /\ ~Has(arg, "duration") =>
              ~Has(ret, "durata_secondi") /\ ~Has(ret, "durata_minuti")
        /\ ~Has(arg, "distance") => ~Has(ret, "distanza_km")
        /\ ~Has(arg, "speed") =>
              /\ ~Has(ret, "velocita_avg_kmh") /\ ~Has(ret, "velocita_max_kmh")
              /\ ~Has(ret, "passo_medio_min_km")
        /\ ~Has(arg, "heartRate") => ~Has(ret, "intensita_fc")
        /\ ~Has(arg, "zones") => DOMAIN ret \cap ZoneKeys = {}

\* C8: passo_medio_min_km is produced exactly when the speed sub-object is
\* present and the average speed in km/h (3.6 times the average in m/s) is
\* strictly positive, and is then 60 / velocita_avg_kmh; for a zero, negative
\* or missing average speed there is no pace key and nothing is divided.
C8_PaceOnlyForPositiveSpeed ==
    pc = "done" =>
        LET avg_ms == IF Has(arg, "speed") THEN Get(arg["speed"], "avg", Whole(0))
                      ELSE Whole(0)
            kmh == Get(ret, "velocita_avg_kmh", None)
        IN  /\ Has(ret, "passo_medio_min_km") <=> (Has(arg, "speed") /\ avg_ms.n > 0)
            /\ Has(ret, "passo_medio_min_km") <=>
                  (Has(arg, "speed") /\ IsNum(kmh) /\ kmh.n > 0)
            /\ Has(ret, "passo_medio_min_km") =>
                  \* kmh = 3.6 * avg and pace * kmh = 60, cross-multiplied
                  /\ kmh.n * 10 * avg_ms.d = 36 * avg_ms.n * kmh.d
                  /\ IsNum(ret["passo_medio_min_km"])
                  /\ ret["passo_medio_min_km"].n * kmh.n
                        = 60 * ret["passo_medio_min_km"].d * kmh.d
            /\ NoZeroDivision(ret)

\* an average of 10/3 m/s, 12 km/h, came out as a pace of 5 min/km
C8_Witness ==
    /\ pc = "done"
    /\ Has(arg, "speed") /\ Has(arg["speed"], "avg") /\ arg["speed"]["avg"] = Num(10, 3)
    /\ Has(ret, "passo_medio_min_km")
    /\ ret["passo_medio_min_km"] = Whole(5)

\* C9: velocita_media_calc is produced exactly when distance and duration
\* are both present and the duration is nonzero (a present distance of 0
\* counts as present), and is then distanza_km / (durata_minuti / 60); with a
\* zero or unreadable duration it is not produced and nothing is divided by
\* zero.  The duration counts as read when parse_duration returns a number.
C9_CalcSpeedWhenDurationNonzero ==
    pc = "done" =>
        LET secs == ret["durata_secondi"]
        IN  /\ Has(ret, "velocita_media_calc") <=>
                  /\ Has(arg, "distance") /\ Has(arg, "duration")
                  /\ IsNum(secs) /\ secs.n # 0
            /\ NoZeroDivision(ret)

\* C10: intensita_fc is produced exactly when fc_avg and fc_max are both
\* present and fc_max is nonzero (a present fc_avg of 0 gives intensity 0),
\* and is then fc_avg / fc_max * 100; with fc_max zero or no heartRate it is
\* not produced and nothing is divided by zero.
C10_IntensityWhenMaxNonzero ==
    pc = "done" =>
        LET hr == IF Has(arg, "heartRate") THEN arg["heartRate"] ELSE EmptyDict
            both == Has(hr, "avg") /\ Has(hr, "max") /\ hr["max"].n # 0
        IN  /\ Has(ret, "intensita_fc") <=> both
            /\ both =>
                  ret["intensita_fc"].n * hr["max"].n * hr["avg"].d
                      = 100 * hr["avg"].n * hr["max"].d * ret["intensita_fc"].d
            /\ NoZeroDivision(ret)

\* the start time of the first entry of a non-empty exercises list, or None
FirstStartTime(data) ==
    IF /\ data.t = "dict" /\ Has(data.d, "exercises")
       /\ data.d["exercises"].t = "list" /\ Len(data.d["exercises"].items) > 0
       /\ data.d["exercises"].items[1].t = "dict"
    THEN Get(data.d["exercises"].items[1].d, "startTime", None)
    ELSE None

\* the start time is a text the datetime parser reads
Parseable(start_time) == IsStr(start_time) /\ parse_datetime(start_time).ok

\* a calendar date <<year, month, day>>
IsDate(v) ==
    /\ DOMAIN v = 1..3
    /\ v[1] \in 1..9999 /\ v[2] \in 1..12 /\ v[3] \in 1..DaysInMonth(v[1], v[2])

\* C11: extract_date_from_json returns a date for every parsed document and
\* never raises: the calendar date of the start time of the first entry when
\* the document has a non-empty exercises list whose first entry has a start
\* time the datetime parser reads, and today's date in every other case (no
\* exercises key, an empty list, a start time that is missing or unreadable,
\* a document or an exercises value of another shape).  The start time
\* 2025-07-21T04:53:40.000 gives 21 July 2025, 2025-07-22...Z gives 22 July
\* and 2025-02-29 gives today.
C11_DateOfFirstEntryOrToday ==
    pc = "done" =>
        LET start_time == FirstStartTime(arg)
        IN  /\ IsDate(ret)
            /\ IF Parseable(start_time)
               THEN ret = parse_datetime(start_time).date
               ELSE ret = TodayDate
            /\ start_time = Str("2025-07-21T04:53:40.000") => ret = <<2025, 7, 21>>
            /\ start_time = Str("2024-02-29T06:00:00Z") => ret = <<2024, 2, 29>>
            /\ start_time = Str("2025-07-21T23:30:00-05:00") => ret = <<2025, 7, 21>>
            /\ start_time \in {Str("2025-02-29"), Str("2025-07-21T25:00:00"),
                               Str("21/07/2025"), Str("2025-07-21T")}
                  => ret = TodayDate

\* a document of two entries gave the date of its first entry, which is
\* neither today nor the date of the second entry
C11_Witness ==
    /\ pc = "done"
    /\ arg = Exercises(<<Started(Str("2025-07-21T04:53:40.000")), Dict(ExerciseB)>>)
    /\ ret = <<2025, 7, 21>>
    /\ ret # TodayDate

\* position of the first occurrence of needle in hay, or 0
RECURSIVE Find(_, _, _)
Find(hay, needle, i) ==
    IF i + Len(needle) - 1 > Len(hay) THEN 0
    ELSE IF SubSeq(hay, i, i + Len(needle) - 1) = needle THEN i
    ELSE Find(hay, needle, i + 1)

\* a decimal numeral without a sign or a leading zero
IsNumeral(t) == t # "" /\ AllDigits(t) /\ (Len(t) = 1 \/ Char(t, 1) # "0")

\* the rendered text read back: "<h>h <m>m <s>s" or "<m>m <s>s" as
\* [ok, hashours, h, m, s]
ReadDuration(text) ==
    LET hp   == Find(text, "h ", 1)
        ht   == IF hp = 0 THEN "0" ELSE Take(text, hp - 1)
        rest == IF hp = 0 THEN text ELSE Drop(text, hp + 1)
        mp   == Find(rest, "m ", 1)
        mt   == IF mp = 0 THEN "" ELSE Take(rest, mp - 1)
        tl   == IF mp = 0 THEN "" ELSE Drop(rest, mp + 1)
        st   == IF tl = "" THEN "" ELSE Take(tl, Len(tl) - 1)
        ok   == /\ mp > 0 /\ tl # "" /\ Char(tl, Len(tl)) = "s"
                /\ IsNumeral(ht) /\ IsNumeral(mt) /\ IsNumeral(st)
    IN  IF ok THEN [ok |-> TRUE, hashours |-> hp > 0, h |-> DigitsVal(ht),
                    m |-> DigitsVal(mt), s |-> DigitsVal(st)]
        ELSE [ok |-> FALSE, hashours |-> FALSE, h |-> 0, m |-> 0, s |-> 0]

\* a non-negative whole number of seconds
WholeSeconds(v) == IsNum(v) /\ v.d = 1 /\ v.n >= 0

\* C12: for every non-negative whole number of seconds format_duration
\* returns a text "{h}h {m}m {s}s" or "{m}m {s}s" whose numbers satisfy
\* h*3600 + m*60 + s = seconds, 0 <= m <= 59 and 0 <= s <= 59, the hours
\* being shown exactly when h > 0; None renders as "N/A".  3661 seconds
\* render as "1h 1m 1s" and 59 seconds as "0m 59s".
C12_DurationTextDecomposesSeconds ==
    pc = "done" =>
        /\ IsNone(arg) => ret = [exc |-> "none", text |-> "N/A"]
        /\ WholeSeconds(arg) =>
              LET r == ReadDuration(ret.text)
              IN  /\ ret.exc = "none"
                  /\ r.ok
                  /\ r.h * 3600 + r.m * 60 + r.s = arg.n
                  /\ r.m \in 0..59 /\ r.s \in 0..59
                  /\ r.hashours <=> arg.n >= 3600
                  /\ r.hashours => r.h > 0
        /\ arg = Whole(3661) => ret.text = "1h 1m 1s"
        /\ arg = Whole(59) => ret.text = "0m 59s"
        /\ arg = Whole(3600) => ret.text = "1h 0m 0s"

\* a duration of more than an hour has been rendered with its hours
C12_Witness ==
    /\ pc = "done"
    /\ arg = Whole(3661)
    /\ ret.text = "1h 1m 1s"
    /\ ReadDuration(ret.text).hashours

\* the run of the script is over, by reaching its end or by an exception
RunOver == pc \in {"idle", "crashed"}

\* file i of the batch was parsed and no later file of the batch that was
\* parsed has its date
LastOfItsDate(i) ==
    /\ ~Unparseable(uploaded_files[i])
    /\ \A j \in (i + 1)..Len(uploaded_files) :
          Unparseable(uploaded_files[j])
              \/ DateOfFile(uploaded_files[j]) # DateOfFile(uploaded_files[i])

\* C13: training_data maps a calendar date to one session, and the session
\* of a date is the one built from the last file in upload order that
\* load_json_file parsed and whose extracted date is that date: every parsed
\* file is stored under its date (file name and raw document), replacing an
\* earlier session of that date, two undated files included, and leaving the
\* sessions of the other dates as they were; when the run is over each date
\* of the batch belongs to the last parsed file that has it.
C13_LastParsedFileOwnsItsDate ==
    /\ [][ (InLoop /\ ~Unparseable(CurrentFile)) =>
              LET file_date == DateOfFile(CurrentFile)
              IN  /\ DOMAIN training_data' = DOMAIN training_data \cup {file_date}
                  /\ training_data'[file_date].filename = CurrentFile.name
                  /\ training_data'[file_date].raw_data
                        = load_json_file(CurrentFile).content
                  /\ \A d \in DOMAIN training_data \ {file_date} :
                        training_data'[d] = training_data[d] ]_vars
    /\ [](RunOver =>
              \A i \in 1..Len(uploaded_files) :
                  LastOfItsDate(i) =>
                      /\ Has(training_data, DateOfFile(uploaded_files[i]))
                      /\ training_data[DateOfFile(uploaded_files[i])].filename
                            = uploaded_files[i].name)

\* the earliest and the latest date of a selection
Earliest(sel) ==
    CHOOSE d \in {sel[i] : i \in DOMAIN sel} :
        \A i \in DOMAIN sel : d = sel[i] \/ DateLess(d, sel[i])
Latest(sel) ==
    CHOOSE d \in {sel[i] : i \in DOMAIN sel} :
        \A i \in DOMAIN sel : d = sel[i] \/ DateLess(sel[i], d)

\* the parameters the analysis has a record for
Compared(first_session, last_session) ==
    {param \in DOMAIN first_session \cap DOMAIN last_session :
        /\ Numeric(first_session[param]) /\ Numeric(last_session[param])
        /\ calculate_improvement(first_session[param], last_session[param], param)
              # Sentinel}

\* C14: for every selection of at least two sessions, made in any order, the
\* progress analysis completes and compares the session of the earliest
\* selected date (baseline) with the session of the latest one (final); it
\* emits one improvement record for a parameter exactly when the parameter
\* is in both sessions, both values are numeric and calculate_improvement
\* does not return (None, "N/A"), so that a zero baseline gives no record.
C14_EarliestAgainstLatest ==
    (pc = "done" /\ Len(arg) >= 2) =>
        LET first_session == training_data[Earliest(arg)].data
            last_session  == training_data[Latest(arg)].data
        IN  /\ ret.compared
            /\ ret.baseline = Earliest(arg) /\ ret.final = Latest(arg)
            /\ ret.exc = "none"
            /\ {r.Parametro : r \in ret.improvements}
                  = {Parametro(param) : param \in Compared(first_session, last_session)}
            /\ Cardinality(ret.improvements)
                  = Cardinality(Compared(first_session, last_session))

\* the lower-cased name holds a keyword of the negative list and one of the
\* positive list
MatchesBoth(name) ==
    /\ AnyIn(negative_parameters, Lower(name))
    /\ AnyIn(positive_parameters, Lower(name))

\* the sign calculate_improvement would give if the positive list were
\* looked at first
PositiveFirst(perc_change, name) ==
    IF AnyIn(positive_parameters, Lower(name)) THEN perc_change
    ELSE IF AnyIn(negative_parameters, Lower(name)) THEN Neg(perc_change)
    ELSE perc_change

\* every metric name of lines 104-156
MetricNames ==
    {"sport", "durata_secondi", "durata_minuti", "distanza_metri", "distanza_km",
     "calorie", "ascent", "descent",
     "altitudine_min", "altitudine_avg", "altitudine_max",
     "fc_min", "fc_avg", "fc_max",
     "velocita_avg_ms", "velocita_max_ms", "velocita_avg_kmh", "velocita_max_kmh",
     "passo_medio_min_km", "velocita_media_calc",
     "zona_vel_min", "zona_vel_max", "tempo_in_zona", "distanza_in_zona",
     "intensita_fc"}

\* the metric names on which the two lists do not meet
UnambiguousNames ==
    {name \in MetricNames :
        /\ ~MatchesBoth(name)
        /\ SignedImprovement(Whole(7), name) = PositiveFirst(Whole(7), name)}

\* C15: no metric name that process_exercise_data produces holds both a
\* keyword of the negative list and a keyword of the positive list of
\* calculate_improvement, so the precedence of the negative list over the
\* positive one never decides the sign of a produced metric: looking at the
\* positive list first gives the same improvement.
C15_NoMetricMatchesBothLists ==
    pc = "done" => DOMAIN ret \subseteq UnambiguousNames

\* an entry with every source field has produced all the metric names,
\* those of the negative list and those of the positive list among them
C15_Witness ==
    /\ pc = "done"
    /\ DOMAIN ret = MetricNames
    /\ SignedImprovement(Whole(7), "tempo_in_zona") = Whole(-7)
    /\ SignedImprovement(Whole(7), "distanza_in_zona") = Whole(7)

====
